---- MODULE Spec2Model ----
(***************************************************************************)
(* A model of the PyBridge / zynk command bridge:                          *)
(*   - the command and model registry        (pybridge/registry.py)        *)
(*   - the TypeScript client generator        (pybridge/generator.py)      *)
(*   - the streaming dispatcher and endpoint  (pybridge/bridge.py)         *)
(*   - the channel and channel manager        (pybridge/channel.py, which  *)
(*     is not part of the sources at hand and is modelled from spec.md)    *)
(***************************************************************************)
EXTENDS Integers, Sequences, FiniteSets, TLC

VARIABLES
    commands,   \* CommandRegistry._commands: insertion-ordered dict, a sequence of CommandInfo
    models,     \* CommandRegistry._models: model __name__ -> model class
    lastOp,     \* outcome of the last registry / generator call (return or raised error)
    clock,      \* the wall clock datetime.now() reads
    files,      \* the output directory: path -> content written
    prevMain,   \* main file content as the generate call before the last one left it
    phase,      \* "import": the application's modules are being imported and register
                \* their commands; "run": the bridge generates the client and serves
    stack,      \* collect_models_from_type: the hints of the calls still to be made by
                \* the running top-level call, next call first
    root,       \* the hint the running (or last) top-level collect call was given
    stored,     \* the names the running (or last) top-level collect call stored, in order
    chan,       \* the Channel objects created so far: id -> [queue, closed]
    managed,    \* channel_manager's bookkeeping: the ids it resolves
    sent,       \* per channel, every frame its queue accepted, in order
    delivered,  \* per channel, every frame the stream endpoint yielded, in order
    task,       \* per channel, the background task running _execute_channel_command
    consumer,   \* per stream request, the state of stream_channel / event_generator
    work,       \* generate's worklist loop: where it is, its sets and its output so far
    debug,      \* Bridge.debug
    resp,       \* the POST /command exchange in flight: the request, the call, the response
    instance,   \* CommandRegistry._instance: the identity of the singleton, 0 for None
    casing,     \* an identifier and what the generator and the client runtime make of it
    extracted,  \* an events class and what _extract_event_types returned for it
    ws,         \* a zynk WebSocket wrapper, the socket under it and its peer
    wscall      \* per task, the WebSocket method it is running and where it is in it

regVars == <<commands, models, lastOp, phase>>

genVars == <<clock, files, prevMain, work>>

colVars == <<stack, root, stored>>

chanVars == <<chan, managed, sent, delivered, task, consumer>>

reqVars == <<debug, resp>>

libVars == <<instance, casing, extracted, ws, wscall>>

vars == <<commands, models, lastOp, clock, files, prevMain, phase, stack, root, stored,
          chan, managed, sent, delivered, task, consumer, work, debug, resp,
          instance, casing, extracted, ws, wscall>>

(***************************************************************************)
(* Bounds of the model.                                                    *)
(***************************************************************************)
MaxClock == 2

\* channels created, send calls one handler makes, stream requests
MaxChannels == 1

MaxSends == 2

MaxConsumers == 2

(***************************************************************************)
(* Type hints.  Every hint is a record [kind, name, args].                 *)
(***************************************************************************)
T(kind, name, args) == [kind |-> kind, name |-> name, args |-> args]

NoHint == T("nohint", "", <<>>)
AnyT == T("any", "", <<>>)
StrT == T("prim", "str", <<>>)
IntT == T("prim", "int", <<>>)
FloatT == T("prim", "float", <<>>)
NoneTypeT == T("prim", "NoneType", <<>>)
ModelT(c) == T("model", c, <<>>)
ListT(t) == T("list", "", <<t>>)
SetT(t) == T("set", "", <<t>>)
DictT(k, v) == T("dict", "", <<k, v>>)
TupleT(ts) == T("tuple", "", ts)
UnionT(ts) == T("union", "", ts)
OptionalT(t) == UnionT(<<t, NoneTypeT>>)
ChannelT(t) == T("channel", "", <<t>>)

\* hints that carry __origin__ / __args__
GenericKinds == {"list", "set", "dict", "tuple", "union", "channel"}

(***************************************************************************)
(* The pydantic model classes of the application.  ItemA and ItemB are two *)
(* classes of different modules that share the __name__ "Item".            *)
(***************************************************************************)
Classes == {"Node", "Ping", "Pong", "ItemA", "ItemB", "Tag", "Point"}

\* the classes the application hands to register_model itself
DirectModels == {"ItemA", "ItemB", "Tag"}

ClassName(c) == IF c \in {"ItemA", "ItemB"} THEN "Item" ELSE c

Field(n, t) == [name |-> n, type |-> t]

ModelFields(c) ==
    CASE c = "Node"  -> <<Field("value", IntT), Field("next_node", OptionalT(ModelT("Node")))>>
      [] c = "Ping"  -> <<Field("pong", ModelT("Pong"))>>
      [] c = "Pong"  -> <<Field("pings", ListT(ModelT("Ping")))>>
      [] c = "ItemA" -> <<Field("item_id", IntT), Field("tag", ModelT("Tag"))>>
      [] c = "ItemB" -> <<Field("item_id", IntT)>>
      [] c = "Tag"   -> <<Field("label", StrT)>>
      [] c = "Point" -> <<Field("x", FloatT), Field("y", FloatT)>>

FieldTypes(c) == [i \in 1..Len(ModelFields(c)) |-> ModelFields(c)[i].type]

(***************************************************************************)
(* The functions the application decorates with @command.                  *)
(***************************************************************************)
Param(n, t) == [name |-> n, type |-> t]

Fn(fname, module, sig, ret, isAsync) ==
    [fname |-> fname, module |-> module, sig |-> sig, ret |-> ret, is_async |-> isAsync]

FnIds == {"f_add", "f_add2", "f_points", "f_tick", "f_walk"}

\* the functions of the application the streaming model serves; log_lines is a plain
\* def, as the decorator allows
ServedFnIds == <<"f_points", "f_tick", "f_log">>

\* an application that kept a camel-cased command beside its snake-cased successor
StubFnIds == {"f_get", "f_getc", "f_points"}

FnDef(f) ==
    CASE f = "f_add"    -> Fn("add_item", "tasks",
                              <<Param("name", StrT), Param("item", ModelT("ItemA"))>>,
                              ModelT("ItemA"), TRUE)
      [] f = "f_add2"   -> Fn("add_item", "users",
                              <<Param("item", ModelT("ItemB"))>>, ModelT("Point"), TRUE)
      [] f = "f_points" -> Fn("list_points", "weather", <<>>, ListT(ModelT("Point")), TRUE)
      [] f = "f_tick"   -> Fn("tick", "tasks",
                              <<Param("count", IntT), Param("channel", ChannelT(ModelT("Ping")))>>,
                              NoneTypeT, TRUE)
      [] f = "f_log"    -> Fn("log_lines", "tasks",
                              <<Param("channel", ChannelT(StrT))>>, NoneTypeT, FALSE)
      [] f = "f_get"    -> Fn("get_user", "users", <<Param("name", StrT)>>, StrT, TRUE)
      [] f = "f_getc"   -> Fn("getUser", "legacy", <<Param("name", StrT)>>, StrT, TRUE)
      [] f = "f_walk"   -> Fn("walk", "users",
                              <<Param("start", OptionalT(ModelT("Node")))>>,
                              DictT(StrT, TupleT(<<ModelT("Node"), IntT>>)), FALSE)

(***************************************************************************)
(* str ordering (sorted(), key=name) on the names that occur.              *)
(***************************************************************************)
SortedNames ==
    <<"Item", "Node", "Ping", "Point", "Pong", "Tag",
      "add_item", "getUser", "get_user", "list_points", "log_lines", "tick", "walk">>

NameRank(n) == CHOOSE i \in 1..Len(SortedNames) : SortedNames[i] = n

NameLess(a, b) == NameRank(a) < NameRank(b)

(***************************************************************************)
(* CommandRegistry                                                         *)
(***************************************************************************)
NamesOf(cmds) == {cmds[i].name : i \in 1..Len(cmds)}

CommandNames == NamesOf(commands)

\* dict.get(name) on a command dict: the entry, or nothing
Lookup(cmds, name) ==
    IF name \in NamesOf(cmds)
    THEN {cmds[CHOOSE i \in 1..Len(cmds) : cmds[i].name = name]}
    ELSE {}

\* CommandRegistry.get_command
get_command(name) == Lookup(commands, name)

\* the ValueError text of CommandRegistry.register: the pieces it interpolates
ConflictMessage(name, existingModule, newModule) ==
    <<"Command name conflict", name, existingModule, newModule>>

NoError == <<>>

\* CommandRegistry.register: the error raised (NoError when it returns)
RegisterError(cmd, cmds) ==
    IF cmd.name \in NamesOf(cmds)
    THEN LET existing == CHOOSE c \in Lookup(cmds, cmd.name) : TRUE
         IN ConflictMessage(cmd.name, existing.module, cmd.module)
    ELSE NoError

\* a register that replaces the stored entry instead of raising before the store
RegisterResultOverwrite(cmd, cmds) ==
    IF cmd.name \in NamesOf(cmds)
    THEN [i \in 1..Len(cmds) |-> IF cmds[i].name = cmd.name THEN cmd ELSE cmds[i]]
    ELSE Append(cmds, cmd)

\* CommandRegistry.register: _commands after the call
RegisterResult(cmd, cmds) ==
    IF cmd.name \in NamesOf(cmds) THEN cmds ELSE Append(cmds, cmd)

\* a register_model without the membership test
RegisterModelResultOverwrite(c, m) ==
    [n \in DOMAIN m \cup {ClassName(c)} |-> IF n = ClassName(c) THEN c ELSE m[n]]

\* CommandRegistry.register_model: _models after the call
RegisterModelResult(c, m) ==
    IF ClassName(c) \notin DOMAIN m THEN m @@ (ClassName(c) :> c) ELSE m

\* CommandRegistry.collect_models_from_type: _models after the call
RECURSIVE CollectModels(_, _)
RECURSIVE CollectSeq(_, _)
CollectModels(t, m) ==
    IF t.kind = "nohint" THEN m
    ELSE IF t.kind \in GenericKinds THEN CollectSeq(t.args, m)
    ELSE IF t.kind = "model"
         THEN IF ClassName(t.name) \notin DOMAIN m
              THEN CollectSeq(FieldTypes(t.name), m @@ (ClassName(t.name) :> t.name))
              ELSE m
         ELSE m

CollectSeq(ts, m) ==
    IF ts = <<>> THEN m ELSE CollectSeq(Tail(ts), CollectModels(Head(ts), m))

\* a decorator loop that records the channel parameter among the params as well
RECURSIVE ScanParamsKeepChannel(_, _)
ScanParamsKeepChannel(sig, acc) ==
    IF sig = <<>> THEN acc
    ELSE LET p == Head(sig) IN
         ScanParamsKeepChannel(Tail(sig),
             [acc EXCEPT !.params = Append(acc.params, p),
                         !.has_channel = acc.has_channel \/ p.name = "channel",
                         !.models = IF p.name # "channel" THEN CollectModels(p.type, acc.models)
                                    ELSE IF p.type.kind = "channel" /\ p.type.args # <<>>
                                    THEN CollectModels(p.type.args[1], acc.models)
                                    ELSE acc.models])

\* the decorator's loop over sig.parameters: [params, has_channel, models]
RECURSIVE ScanParams(_, _)
ScanParams(sig, acc) ==
    IF sig = <<>> THEN acc
    ELSE LET p == Head(sig) IN
         IF p.name = "channel"
         THEN ScanParams(Tail(sig),
                  [acc EXCEPT !.has_channel = TRUE,
                              !.models = IF p.type.kind = "channel" /\ p.type.args # <<>>
                                         THEN CollectModels(p.type.args[1], acc.models)
                                         ELSE acc.models])
         ELSE ScanParams(Tail(sig),
                  [acc EXCEPT !.params = Append(acc.params, p),
                              !.models = CollectModels(p.type, acc.models)])

\* the decorator up to the CommandInfo it builds, and _models after its collecting
Decorate(f, m) ==
    LET fn == FnDef(f)
        scan == ScanParams(fn.sig, [params |-> <<>>, has_channel |-> FALSE, models |-> m])
    IN [cmd |-> [name |-> fn.fname, func |-> f, params |-> scan.params,
                 return_type |-> fn.ret, is_async |-> fn.is_async,
                 module |-> fn.module, has_channel |-> scan.has_channel],
        models |-> CollectModels(fn.ret, scan.models)]

Op(op, arg, err) == [op |-> op, arg |-> arg, err |-> err]

\* @command applied to function f
Command(f) ==
    LET d == Decorate(f, models) IN
    /\ phase = "import"
    /\ stack = <<>>
    /\ models' = d.models
    /\ commands' = RegisterResult(d.cmd, commands)
    /\ lastOp' = Op("command", f, RegisterError(d.cmd, commands))
    /\ UNCHANGED <<phase, genVars, colVars, chanVars, reqVars, libVars>>

\* get_registry().register_model(c)
RegisterModel(c) ==
    /\ phase = "import"
    /\ stack = <<>>
    /\ models' = RegisterModelResult(c, models)
    /\ lastOp' = Op("register_model", c, NoError)
    /\ UNCHANGED <<commands, phase, genVars, colVars, chanVars, reqVars, libVars>>

\* a clear() that leaves the dict as it is
ClearKeepsEntries(d) == d

\* dict.clear(): the same dict object, now empty
Clear(d) == <<>>

\* CommandRegistry.reset(): the instance, when there is one, has both its dicts
\* cleared; _instance is not assigned
Reset ==
    /\ phase = "import"
    /\ stack = <<>>
    /\ commands' = IF instance # 0 THEN Clear(commands) ELSE commands
    /\ models' = IF instance # 0 THEN Clear(models) ELSE models
    /\ lastOp' = Op("reset", IF commands # <<>> \/ models # <<>> THEN "cleared" ELSE "", NoError)
    /\ UNCHANGED <<phase, genVars, colVars, chanVars, reqVars, libVars>>

\* CommandRegistry.get_all_commands: a copy of the dict, in insertion order
get_all_commands == commands

\* GET /commands
list_commands ==
    [i \in 1..Len(get_all_commands) |->
        [name |-> get_all_commands[i].name,
         module |-> get_all_commands[i].module,
         has_channel |-> get_all_commands[i].has_channel,
         params |-> [j \in 1..Len(get_all_commands[i].params) |->
                        get_all_commands[i].params[j].name]]]

(***************************************************************************)
(* Identifier casing (generator.py).  An identifier is the sequence of its *)
(* characters; Chars spells the identifiers that occur.                    *)
(***************************************************************************)
Chars(n) ==
    CASE n = "add_item"    -> <<"a", "d", "d", "_", "i", "t", "e", "m">>
      [] n = "list_points" -> <<"l", "i", "s", "t", "_", "p", "o", "i", "n", "t", "s">>
      [] n = "tick"        -> <<"t", "i", "c", "k">>
      [] n = "log_lines"   -> <<"l", "o", "g", "_", "l", "i", "n", "e", "s">>
      [] n = "walk"        -> <<"w", "a", "l", "k">>
      [] n = "get_user"    -> <<"g", "e", "t", "_", "u", "s", "e", "r">>
      [] n = "getUser"     -> <<"g", "e", "t", "U", "s", "e", "r">>
      [] n = "name"        -> <<"n", "a", "m", "e">>
      [] n = "item"        -> <<"i", "t", "e", "m">>
      [] n = "count"       -> <<"c", "o", "u", "n", "t">>
      [] n = "start"       -> <<"s", "t", "a", "r", "t">>
      [] n = "value"       -> <<"v", "a", "l", "u", "e">>
      [] n = "next_node"   -> <<"n", "e", "x", "t", "_", "n", "o", "d", "e">>
      [] n = "pong"        -> <<"p", "o", "n", "g">>
      [] n = "pings"       -> <<"p", "i", "n", "g", "s">>
      [] n = "item_id"     -> <<"i", "t", "e", "m", "_", "i", "d">>
      [] n = "tag"         -> <<"t", "a", "g">>
      [] n = "label"       -> <<"l", "a", "b", "e", "l">>
      [] n = "x"           -> <<"x">>
      [] n = "y"           -> <<"y">>

LowerLetters ==
    <<"a", "b", "c", "d", "e", "f", "g", "h", "i", "j", "k", "l", "m",
      "n", "o", "p", "q", "r", "s", "t", "u", "v", "w", "x", "y", "z">>

UpperLetters ==
    <<"A", "B", "C", "D", "E", "F", "G", "H", "I", "J", "K", "L", "M",
      "N", "O", "P", "Q", "R", "S", "T", "U", "V", "W", "X", "Y", "Z">>

IsLower(ch) == \E i \in 1..26 : LowerLetters[i] = ch
IsUpper(ch) == \E i \in 1..26 : UpperLetters[i] = ch
IsCased(ch) == IsLower(ch) \/ IsUpper(ch)
ToUpper(ch) == IF IsLower(ch) THEN UpperLetters[CHOOSE i \in 1..26 : LowerLetters[i] = ch] ELSE ch
ToLower(ch) == IF IsUpper(ch) THEN LowerLetters[CHOOSE i \in 1..26 : UpperLetters[i] = ch] ELSE ch

\* str.title() of one component: a cased character is upper-cased when it follows
\* an uncased one (or starts the string) and lower-cased otherwise
RECURSIVE Title(_, _)
Title(cs, prevCased) ==
    IF cs = <<>> THEN <<>>
    ELSE LET ch == Head(cs) IN
         IF IsCased(ch)
         THEN <<IF prevCased THEN ToLower(ch) ELSE ToUpper(ch)>> \o Title(Tail(cs), TRUE)
         ELSE <<ch>> \o Title(Tail(cs), FALSE)

\* str.split("_")
RECURSIVE Split(_, _)
Split(cs, cur) ==
    IF cs = <<>> THEN <<cur>>
    ELSE IF Head(cs) = "_" THEN <<cur>> \o Split(Tail(cs), <<>>)
    ELSE Split(Tail(cs), Append(cur, Head(cs)))

RECURSIVE JoinTitled(_)
JoinTitled(components) ==
    IF components = <<>> THEN <<>>
    ELSE Title(Head(components), FALSE) \o JoinTitled(Tail(components))

RECURSIVE Str(_)
Str(cs) == IF cs = <<>> THEN "" ELSE Head(cs) \o Str(Tail(cs))

\* python_name_to_camel_case, on the characters
CamelChars(cs) ==
    LET components == Split(cs, <<>>)
    IN Head(components) \o JoinTitled(Tail(components))

python_name_to_camel_case(n) == Str(CamelChars(Chars(n)))

(***************************************************************************)
(* TypeScriptGenerator                                                     *)
(***************************************************************************)
PythonToTs(n) ==
    CASE n = "str" -> "string"
      [] n = "int" -> "number"
      [] n = "float" -> "number"
      [] n = "bool" -> "boolean"
      [] n = "bytes" -> "string"
      [] n = "NoneType" -> "null"

RECURSIVE Join(_, _)
Join(strs, sep) ==
    IF strs = <<>> THEN ""
    ELSE IF Len(strs) = 1 THEN strs[1]
    ELSE strs[1] \o sep \o Join(Tail(strs), sep)

NonNone(ts) == SelectSeq(ts, LAMBDA a : a # NoneTypeT)

HasNone(ts) == \E i \in 1..Len(ts) : ts[i] = NoneTypeT

\* TypeScriptGenerator._type_to_ts: the string it returns
RECURSIVE TypeToTs(_)
TypeToTs(t) ==
    IF t.kind = "nohint" THEN "void"
    ELSE IF t.kind = "prim" THEN PythonToTs(t.name)
    ELSE IF t.kind = "any" THEN "unknown"
    ELSE IF t.kind = "union"
         THEN IF Len(NonNone(t.args)) = 1 /\ HasNone(t.args)
              THEN TypeToTs(NonNone(t.args)[1]) \o " | null"
              ELSE Join([i \in 1..Len(t.args) |-> TypeToTs(t.args[i])], " | ")
    ELSE IF t.kind = "list"
         THEN IF t.args # <<>> THEN TypeToTs(t.args[1]) \o "[]" ELSE "unknown[]"
    ELSE IF t.kind = "dict"
         THEN IF Len(t.args) >= 2
              THEN LET key == TypeToTs(t.args[1])
                   IN "Record<" \o (IF key \notin {"string", "number"} THEN "string" ELSE key)
                      \o ", " \o TypeToTs(t.args[2]) \o ">"
              ELSE "Record<string, unknown>"
    ELSE IF t.kind = "tuple"
         THEN IF t.args # <<>>
              THEN "[" \o Join([i \in 1..Len(t.args) |-> TypeToTs(t.args[i])], ", ") \o "]"
              ELSE "unknown[]"
    ELSE IF t.kind = "set"
         THEN IF t.args # <<>> THEN TypeToTs(t.args[1]) \o "[]" ELSE "unknown[]"
    ELSE IF t.kind = "model" THEN ClassName(t.name)
    ELSE "unknown"

\* TypeScriptGenerator._type_to_ts: the names it adds to models_to_generate
RECURSIVE TypeToTsModels(_)
TypeToTsModels(t) ==
    IF t.kind = "union"
    THEN IF Len(NonNone(t.args)) = 1 /\ HasNone(t.args)
         THEN TypeToTsModels(NonNone(t.args)[1])
         ELSE UNION {TypeToTsModels(t.args[i]) : i \in 1..Len(t.args)}
    ELSE IF t.kind \in {"list", "set"}
         THEN IF t.args # <<>> THEN TypeToTsModels(t.args[1]) ELSE {}
    ELSE IF t.kind = "dict"
         THEN IF Len(t.args) >= 2
              THEN TypeToTsModels(t.args[1]) \cup TypeToTsModels(t.args[2])
              ELSE {}
    ELSE IF t.kind = "tuple"
         THEN UNION {TypeToTsModels(t.args[i]) : i \in 1..Len(t.args)}
    ELSE IF t.kind = "model" THEN {ClassName(t.name)}
    ELSE {}

IsOptionalHint(t) == t.kind = "union" /\ HasNone(t.args)

\* TypeScriptGenerator._generate_model_interface: the text
GenerateModelInterface(c) ==
    Join(<<"export interface " \o ClassName(c) \o " {">>
         \o [i \in 1..Len(ModelFields(c)) |->
                "    " \o python_name_to_camel_case(ModelFields(c)[i].name)
                \o (IF IsOptionalHint(ModelFields(c)[i].type) THEN "?" ELSE "")
                \o ": " \o TypeToTs(ModelFields(c)[i].type) \o ";"]
         \o <<"}">>, "\n")

\* TypeScriptGenerator._generate_model_interface: the names added to models_to_generate
GenerateModelInterfaceModels(c) ==
    UNION {TypeToTsModels(ModelFields(c)[i].type) : i \in 1..Len(ModelFields(c))}

\* the payload hint of the function's channel parameter (get_type_hints(cmd.func))
ChannelHintArgs(f) ==
    LET sig == FnDef(f).sig
        idx == {i \in 1..Len(sig) : sig[i].name = "channel" /\ sig[i].type.kind = "channel"}
    IN IF idx = {} THEN <<>> ELSE sig[CHOOSE i \in idx : TRUE].type.args

\* TypeScriptGenerator._generate_command_function: the text
GenerateCommandFunction(cmd) ==
    LET fn_name == python_name_to_camel_case(cmd.name)
        params_type ==
            IF cmd.params # <<>>
            THEN "{ " \o Join([i \in 1..Len(cmd.params) |->
                                 python_name_to_camel_case(cmd.params[i].name) \o ": "
                                 \o TypeToTs(cmd.params[i].type)], "; ") \o " }"
            ELSE "void"
        return_type ==
            IF cmd.has_channel
            THEN IF ChannelHintArgs(cmd.func) # <<>>
                 THEN TypeToTs(ChannelHintArgs(cmd.func)[1]) ELSE "unknown"
            ELSE IF TypeToTs(cmd.return_type) \in {"void", "null"}
                 THEN "void" ELSE TypeToTs(cmd.return_type)
        args == IF cmd.params # <<>> THEN "args: " \o params_type ELSE ""
        call == IF cmd.params # <<>> THEN "args" ELSE "{}"
    IN IF cmd.has_channel
       THEN Join(<<"export function " \o fn_name \o "(" \o args \o "): BridgeChannel<"
                      \o return_type \o "> {",
                   "    return createChannel(\"" \o cmd.name \o "\", " \o call \o ");",
                   "}">>, "\n")
       ELSE Join(<<"export async function " \o fn_name \o "(" \o args \o "): Promise<"
                      \o return_type \o "> {",
                   "    return request(\"" \o cmd.name \o "\", " \o call \o ");",
                   "}">>, "\n")

\* TypeScriptGenerator._generate_command_function: the names added to models_to_generate
GenerateCommandFunctionModels(cmd) ==
    UNION {TypeToTsModels(cmd.params[i].type) : i \in 1..Len(cmd.params)}
    \cup (IF cmd.has_channel
          THEN IF ChannelHintArgs(cmd.func) # <<>>
               THEN TypeToTsModels(ChannelHintArgs(cmd.func)[1]) ELSE {}
          ELSE TypeToTsModels(cmd.return_type))

\* sorted(names): ascending by str order
RECURSIVE SortNames(_)
SortNames(S) ==
    IF S = {} THEN <<>>
    ELSE LET least == CHOOSE n \in S : \A o \in S : o = n \/ NameLess(n, o)
         IN <<least>> \o SortNames(S \ {least})

\* sorted(commands.values(), key=lambda c: c.name)
SortedCommands(cmds) ==
    LET names == SortNames({cmds[i].name : i \in 1..Len(cmds)})
    IN [k \in 1..Len(names) |-> cmds[CHOOSE i \in 1..Len(cmds) : cmds[i].name = names[k]]]

\* a pass that marks a name generated only when the registry resolves it
RECURSIVE GenerateBatchResolved(_, _, _)
GenerateBatchResolved(batch, st, registry) ==
    IF batch = <<>> THEN st
    ELSE LET model_name == Head(batch)
             found == model_name \in DOMAIN registry
         IN GenerateBatchResolved(Tail(batch),
                IF found
                THEN [interfaces |-> Append(st.interfaces,
                                            GenerateModelInterface(registry[model_name])),
                      models_to_generate |-> st.models_to_generate
                                             \cup GenerateModelInterfaceModels(registry[model_name]),
                      generated_models |-> st.generated_models \cup {model_name}]
                ELSE st,
                registry)

\* one pass of the for loop over sorted(current_batch):
\* [interfaces, models_to_generate, generated_models]
RECURSIVE GenerateBatch(_, _, _)
GenerateBatch(batch, st, registry) ==
    IF batch = <<>> THEN st
    ELSE LET model_name == Head(batch)
             found == model_name \in DOMAIN registry
         IN GenerateBatch(Tail(batch),
                [interfaces |-> IF found
                                THEN Append(st.interfaces, GenerateModelInterface(registry[model_name]))
                                ELSE st.interfaces,
                 models_to_generate |-> IF found
                                        THEN st.models_to_generate
                                             \cup GenerateModelInterfaceModels(registry[model_name])
                                        ELSE st.models_to_generate,
                 generated_models |-> st.generated_models \cup {model_name}],
                registry)

\* while models_to_generate - generated_models: ...
RECURSIVE GenerateInterfaces(_, _)
GenerateInterfaces(st, registry) ==
    IF st.models_to_generate \ st.generated_models = {} THEN st
    ELSE GenerateInterfaces(
             GenerateBatch(SortNames(st.models_to_generate \ st.generated_models), st, registry),
             registry)

\* _generate_internal_module: fixed text
InternalModule == "// Internal bridge utilities - do not modify"

\* the loop's state when the while loop is reached: the names the command stubs
\* referenced and every name of the model registry are pending
Worklist(cmds, registry) ==
    LET sorted == SortedCommands(cmds)
        referenced == UNION {GenerateCommandFunctionModels(sorted[i]) : i \in 1..Len(sorted)}
    IN [interfaces |-> <<>>,
        models_to_generate |-> referenced \cup DOMAIN registry,
        generated_models |-> {}]

\* the content generate assembles for the main file at time now
MainContent(cmds, registry, now) ==
    LET sorted == SortedCommands(cmds)
        command_functions == [i \in 1..Len(sorted) |-> GenerateCommandFunction(sorted[i])]
        done == GenerateInterfaces(Worklist(cmds, registry), registry)
    IN [generated |-> now,
        interfaces |-> done.interfaces,
        commands |-> command_functions]

\* TypeScriptGenerator.generate(output_path)
Generate ==
    /\ files' = [internal |-> <<InternalModule>>,
                 main |-> <<MainContent(get_all_commands, models, clock)>>]
    /\ prevMain' = files.main
    /\ lastOp' = Op("generate", "", NoError)
    /\ phase' = "run"
    /\ UNCHANGED <<commands, models, clock, work, colVars, chanVars, reqVars, libVars>>

\* the steps of generate at which the file system can refuse: creating the output
\* directory, opening _internal.ts, opening the main file
GenerateSteps == {"mkdir", "open_internal", "open_main"}

\* the files after a generate call that raised OSError at step: _internal.ts is
\* written as soon as the directory exists, before any main content is built
FilesAfterFailure(step, fs) ==
    IF step = "open_main" THEN [fs EXCEPT !.internal = <<InternalModule>>] ELSE fs

\* TypeScriptGenerator.generate(output_path) raising at step; generate_typescript_client
\* logs the exception and the bridge runs
GenerateFails(step) ==
    /\ files' = FilesAfterFailure(step, files)
    /\ lastOp' = Op("generate", step, <<"OSError">>)
    /\ phase' = "run"
    /\ UNCHANGED <<commands, models, clock, prevMain, work, colVars, chanVars, reqVars, libVars>>

\* time passes: datetime.now() reads a later instant
Tick ==
    /\ clock < MaxClock
    /\ clock' = clock + 1
    /\ UNCHANGED <<regVars, files, prevMain, work, colVars, chanVars, reqVars, libVars>>

(***************************************************************************)
(* generate's worklist loop pass by pass                                   *)
(***************************************************************************)
IdleWork ==
    [pc |-> "idle", passes |-> 0,
     st |-> [interfaces |-> <<>>, models_to_generate |-> {}, generated_models |-> {}]]

Pending(st) == st.models_to_generate \ st.generated_models

\* generate is called: the stubs are rendered and the while loop is reached
DrainStart ==
    /\ work.pc = "idle"
    /\ stack = <<>>
    /\ work' = [pc |-> "loop", passes |-> 0, st |-> Worklist(get_all_commands, models)]
    /\ phase' = "run"
    /\ UNCHANGED <<commands, models, lastOp, clock, files, prevMain, colVars, chanVars, reqVars, libVars>>

\* one iteration of the while loop: the for loop over sorted(current_batch)
DrainPass ==
    /\ work.pc = "loop"
    /\ Pending(work.st) # {}
    /\ work' = [work EXCEPT !.passes = @ + 1,
                            !.st = GenerateBatch(SortNames(Pending(work.st)), work.st, models)]
    /\ UNCHANGED <<regVars, clock, files, prevMain, colVars, chanVars, reqVars, libVars>>

\* the while condition is false: the loop is left
DrainEnd ==
    /\ work.pc = "loop"
    /\ Pending(work.st) = {}
    /\ work' = [work EXCEPT !.pc = "done"]
    /\ UNCHANGED <<regVars, clock, files, prevMain, colVars, chanVars, reqVars, libVars>>

NextDrain ==
    \/ \E f \in FnIds : Command(f)
    \/ \E c \in DirectModels : RegisterModel(c)
    \/ Reset
    \/ DrainStart
    \/ DrainPass
    \/ DrainEnd

\* the loop run pass by pass ends where generate's loop ends
DrainAgrees ==
    work.pc = "done" =>
        work.st = GenerateInterfaces(Worklist(get_all_commands, models), models)

(***************************************************************************)
(* Channel and ChannelManager (pybridge/channel.py), from spec.md 3, 4.5   *)
(* and 5.                                                                  *)
(***************************************************************************)
Frame(event, data) == [event |-> event, data |-> data]

IsTerminal(fr) == fr.event \in {"error", "close"}

NewChannel == [queue |-> <<>>, closed |-> FALSE]

\* Channel.send(data): dropped once the channel is terminal
ChannelSend(ch, data) ==
    IF ch.closed THEN ch
    ELSE [ch EXCEPT !.queue = Append(@, Frame("message", data))]

\* Channel.send_error(message): one terminal frame, then nothing more
ChannelSendError(ch, message) ==
    IF ch.closed THEN ch
    ELSE [queue |-> Append(ch.queue, Frame("error", message)), closed |-> TRUE]

\* a close that does not look at the channel's state
ChannelCloseAgain(ch) ==
    [queue |-> Append(ch.queue, Frame("close", "")), closed |-> TRUE]

\* Channel.close(): one terminal frame, then nothing more
ChannelClose(ch) ==
    IF ch.closed THEN ch
    ELSE [queue |-> Append(ch.queue, Frame("close", "")), closed |-> TRUE]

\* what ChannelManager.remove leaves of the channel object: sends against a removed
\* channel are dropped
ChannelRemoved(ch) == [ch EXCEPT !.closed = TRUE]

\* ChannelManager.get(id): the channel, or nothing
ManagerGet(id) == IF id \in managed THEN {id} ELSE {}

\* ChannelManager.remove(id): idempotent
ManagerRemove(id) == managed \ {id}

\* the frames a producer call added to the queue
Accepted(old, new) == SubSeq(new.queue, Len(old.queue) + 1, Len(new.queue))

(***************************************************************************)
(* The streaming dispatcher and the stream endpoint (bridge.py)            *)
(***************************************************************************)
Consumers == 1..MaxConsumers

ChannelIds == 1..MaxChannels

Payloads == {"a", "b"}

IdleConsumer ==
    [st |-> "idle", ch |-> 0, message |-> Frame("", ""), got |-> <<>>, late |-> FALSE]

\* the registry the served application's imports leave behind
RECURSIVE Imported(_, _)
Imported(fs, reg) ==
    IF fs = <<>> THEN reg
    ELSE LET d == Decorate(Head(fs), reg.models)
         IN Imported(Tail(fs), [commands |-> RegisterResult(d.cmd, reg.commands),
                                models |-> d.models])

\* the request bodies tried: the keys of the JSON object
ArgKeySets == {{}, {"count"}, {"count", "channel", "verbose"}}

\* _execute_channel_command: the kwargs it builds
\* each key with where its value comes from: the channel the manager created, or the
\* request's args, which the loop over cmd.params assigns after it
ChannelKwargs(cmd, argKeys) ==
    LET bound == {n \in {cmd.params[i].name : i \in 1..Len(cmd.params)} : n \in argKeys}
    IN [n \in {"channel"} \cup bound |-> IF n \in bound THEN "args" ELSE "manager"]

\* cmd.func(**kwargs): the call binds when every parameter of the function gets a value
Binds(func, kwargs) ==
    \A i \in 1..Len(FnDef(func).sig) : FnDef(func).sig[i].name \in kwargs

NewTask(cmd, argKeys) ==
    [cmd |-> cmd.name, func |-> cmd.func, args |-> argKeys,
     kwargs |-> ChannelKwargs(cmd, argKeys),
     pc |-> "created", sends |-> 0,
     outcome |-> "none", msg |-> "", dispatch |-> "none", dmsg |-> ""]

\* the update of the channel state and its logs by a producer call on channel id
ProducerCall(id, new) ==
    /\ chan' = [chan EXCEPT ![id] = new]
    /\ sent' = [sent EXCEPT ![id] = @ \o Accepted(chan[id], new)]

\* _execute_channel_command after the handler returned: await channel.close()
DispatchReturn(ch) == ChannelClose(ch)

\* _execute_channel_command in its except clause: await channel.send_error(str(e))
DispatchError(ch, message) == ChannelSendError(ch, message)

\* the end of the task: the handler's outcome and what the dispatcher did about it
Finish(id, outcome, msg, dispatch, dmsg) ==
    /\ task' = [task EXCEPT ![id] = [@ EXCEPT !.pc = "done", !.outcome = outcome, !.msg = msg,
                                              !.dispatch = dispatch, !.dmsg = dmsg]]
    /\ ProducerCall(id, IF dispatch = "close" THEN DispatchReturn(chan[id])
                        ELSE DispatchError(chan[id], dmsg))

\* POST /channel/{command_name} with a body whose keys are argKeys
InitChannel(name, argKeys) ==
    /\ phase = "run"
    /\ IF get_command(name) = {}
       THEN /\ lastOp' = Op("init_channel", name, <<"COMMAND_NOT_FOUND">>)
            /\ UNCHANGED chanVars
       ELSE LET cmd == CHOOSE c \in get_command(name) : TRUE IN
            IF ~cmd.has_channel
            THEN /\ lastOp' = Op("init_channel", name, <<"VALIDATION_ERROR">>)
                 /\ UNCHANGED chanVars
            ELSE LET id == Len(chan) + 1 IN
                 /\ id <= MaxChannels
                 /\ chan' = Append(chan, NewChannel)
                 /\ managed' = managed \cup {id}
                 /\ sent' = Append(sent, <<>>)
                 /\ delivered' = Append(delivered, <<>>)
                 /\ task' = Append(task, NewTask(cmd, argKeys))
                 /\ lastOp' = Op("init_channel", name, NoError)
                 /\ UNCHANGED consumer
    /\ UNCHANGED <<commands, models, phase, genVars, colVars, reqVars, libVars>>

\* the task starts: kwargs are built and cmd.func(**kwargs) is called.  A call that
\* does not bind raises TypeError.  A plain def runs to its end inside the call and
\* what it returns is not awaitable, so the await raises TypeError.
TaskStart(id) ==
    /\ id \in DOMAIN task
    /\ task[id].pc = "created"
    /\ LET fn == FnDef(task[id].func) IN
       IF ~Binds(task[id].func, DOMAIN task[id].kwargs)
       THEN Finish(id, "raised", "missing argument", "send_error", "missing argument")
       ELSE IF ~fn.is_async
       THEN \/ Finish(id, "returned", "", "send_error", "not awaitable")
            \/ Finish(id, "raised", "boom", "send_error", "boom")
       ELSE /\ task' = [task EXCEPT ![id].pc = "running"]
            /\ UNCHANGED <<chan, sent>>
    /\ UNCHANGED <<regVars, genVars, colVars, managed, delivered, consumer, reqVars, libVars>>

\* the handler awaits channel.send(data)
HandlerSend(id, data) ==
    /\ id \in DOMAIN task
    /\ task[id].pc = "running"
    /\ task[id].sends < MaxSends
    /\ task' = [task EXCEPT ![id].sends = @ + 1]
    /\ ProducerCall(id, ChannelSend(chan[id], data))
    /\ UNCHANGED <<regVars, genVars, colVars, managed, delivered, consumer, reqVars, libVars>>

\* the handler itself awaits channel.close()
HandlerClose(id) ==
    /\ id \in DOMAIN task
    /\ task[id].pc = "running"
    /\ ProducerCall(id, ChannelClose(chan[id]))
    /\ UNCHANGED <<regVars, genVars, colVars, managed, delivered, consumer, task, reqVars, libVars>>

\* the handler itself awaits channel.send_error(...)
HandlerSendError(id) ==
    /\ id \in DOMAIN task
    /\ task[id].pc = "running"
    /\ ProducerCall(id, ChannelSendError(chan[id], "gave up"))
    /\ UNCHANGED <<regVars, genVars, colVars, managed, delivered, consumer, task, reqVars, libVars>>

\* the handler returns
HandlerReturn(id) ==
    /\ id \in DOMAIN task
    /\ task[id].pc = "running"
    /\ Finish(id, "returned", "", "close", "")
    /\ UNCHANGED <<regVars, genVars, colVars, managed, delivered, consumer, reqVars, libVars>>

\* the handler raises
HandlerRaise(id) ==
    /\ id \in DOMAIN task
    /\ task[id].pc = "running"
    /\ Finish(id, "raised", "boom", "send_error", "boom")
    /\ UNCHANGED <<regVars, genVars, colVars, managed, delivered, consumer, reqVars, libVars>>

\* stream_channel: the lookup that decides between the stream and the 404
ResolvesOpenOnly(id) == ManagerGet(id) # {} /\ ~chan[id].closed

Resolves(id) == ManagerGet(id) # {}

\* GET /channel/stream/{channel_id}: the channel is looked up; 404 when it is unknown
Attach(c, id) ==
    /\ phase = "run"
    /\ consumer[c].st = "idle"
    /\ consumer' = [consumer EXCEPT ![c] =
           IF ~Resolves(id)
           THEN [@ EXCEPT !.st = "notfound", !.ch = id]
           ELSE [@ EXCEPT !.st = "waiting", !.ch = id, !.late = (task[id].pc = "done")]]
    /\ UNCHANGED <<regVars, genVars, colVars, chan, managed, sent, delivered, task, reqVars, libVars>>

\* a loop that tests for the terminal event before it yields
YieldedUnlessTerminal(log, message) ==
    IF IsTerminal(message) THEN log ELSE Append(log, message)

\* yield message.to_sse(): what the response has carried after it
Yielded(log, message) == Append(log, message)

\* async for message in channel: the next frame is taken and yielded
StreamNext(c) ==
    /\ consumer[c].st = "waiting"
    /\ LET id == consumer[c].ch IN
       /\ chan[id].queue # <<>>
       /\ LET message == Head(chan[id].queue) IN
          /\ chan' = [chan EXCEPT ![id].queue = Tail(@)]
          /\ delivered' = [delivered EXCEPT ![id] = Yielded(@, message)]
          /\ consumer' = [consumer EXCEPT ![c] =
                 [@ EXCEPT !.st = "yielded", !.message = message,
                           !.got = Yielded(@, message)]]
    /\ UNCHANGED <<regVars, genVars, colVars, managed, sent, task, reqVars, libVars>>

\* a generator without the finally clause
FinallyKeep(id) == managed

\* event_generator's finally clause: await channel_manager.remove(channel_id)
FinallyRemove(id) == ManagerRemove(id)

\* the generator is resumed after the yield: it leaves the loop on a terminal frame,
\* and its finally clause removes the channel
StreamResume(c) ==
    /\ consumer[c].st = "yielded"
    /\ LET id == consumer[c].ch
           message == consumer[c].message
       IN IF message.event \in {"close", "error"}
          THEN /\ consumer' = [consumer EXCEPT ![c].st = "finished"]
               /\ managed' = FinallyRemove(id)
               /\ chan' = [chan EXCEPT ![id] = ChannelRemoved(@)]
          ELSE /\ consumer' = [consumer EXCEPT ![c].st = "waiting"]
               /\ UNCHANGED <<managed, chan>>
    /\ UNCHANGED <<regVars, genVars, colVars, sent, delivered, task, reqVars, libVars>>

\* the peer drops the stream: the generator is closed where it is suspended and its
\* finally clause removes the channel
Disconnect(c) ==
    /\ consumer[c].st \in {"waiting", "yielded"}
    /\ consumer' = [consumer EXCEPT ![c].st = "disconnected"]
    /\ managed' = FinallyRemove(consumer[c].ch)
    /\ chan' = [chan EXCEPT ![consumer[c].ch] = ChannelRemoved(@)]
    /\ UNCHANGED <<regVars, genVars, colVars, sent, delivered, task, reqVars, libVars>>

(***************************************************************************)
(* Streaming claims                                                        *)
(***************************************************************************)
IsPrefix(a, b) == Len(a) <= Len(b) /\ a = SubSeq(b, 1, Len(a))

Terminals(frames) == {i \in 1..Len(frames) : IsTerminal(frames[i])}

WellFramed(frames) == \A i \in Terminals(frames) : i = Len(frames)

EndsTerminal(frames) == frames # <<>> /\ IsTerminal(frames[Len(frames)])

\* the stream requests that resolved channel id
AttachedTo(id) ==
    {c \in Consumers : consumer[c].ch = id /\ consumer[c].st \notin {"idle", "notfound"}}

\* C2: what the stream endpoint delivers of a channel is the frames that were sent, in
\* the order sent, none skipped and none twice, with the queue holding exactly the
\* rest; a terminal frame is only ever the last frame; a drain that ended on a terminal
\* frame has delivered every frame sent, the single terminal frame last; and a
\* channel's only consumer has received exactly what was delivered
C2_OrderedDelivery ==
    \A id \in DOMAIN chan :
        /\ IsPrefix(delivered[id], sent[id])
        /\ delivered[id] \o chan[id].queue = sent[id]
        /\ WellFramed(sent[id])
        /\ WellFramed(delivered[id])
        /\ \A c \in AttachedTo(id) :
              /\ WellFramed(consumer[c].got)
              /\ consumer[c].st = "finished" =>
                    /\ delivered[id] = sent[id]
                    /\ EndsTerminal(delivered[id])
                    /\ Cardinality(Terminals(delivered[id])) = 1
              /\ AttachedTo(id) = {c} => consumer[c].got = delivered[id]

\* a drain ended on the terminal frame after data frames were delivered
C2_Witness ==
    \E c \in Consumers :
        /\ consumer[c].st = "finished"
        /\ Len(consumer[c].got) = MaxSends + 1
        /\ consumer[c].got[1] # consumer[c].got[2]
        /\ ~consumer[c].late

\* C3: a channel accepts at most one terminal frame and it is the last frame accepted;
\* once it has one, no step adds a frame, and a close or send_error issued by the
\* handler or by the dispatcher on a channel that is already closed changes nothing
C3_TerminalOnce ==
    [][\A id \in DOMAIN chan' :
          /\ WellFramed(sent'[id])
          /\ Cardinality(Terminals(sent'[id])) <= 1
          /\ (id \in DOMAIN chan /\ Terminals(sent[id]) # {}) =>
                /\ sent'[id] = sent[id]
                /\ Len(chan'[id].queue) <= Len(chan[id].queue)
          /\ ( /\ id \in DOMAIN chan
               /\ chan[id].closed
               /\ \/ HandlerClose(id)
                  \/ HandlerSendError(id)
                  \/ HandlerReturn(id)
                  \/ HandlerRaise(id) ) =>
                /\ chan' = chan
                /\ sent' = sent]_vars

\* the handler errored the channel itself and then returned: the dispatcher's close
\* came second and the error frame is still the only terminal frame
C3_Witness ==
    \E id \in DOMAIN task :
        /\ task[id].pc = "done"
        /\ task[id].dispatch = "close"
        /\ sent[id] = <<Frame("message", "a"), Frame("error", "gave up")>>

\* C4: when the task of a streaming command is done, a handler that returned had the
\* dispatcher close the channel, a handler that raised had the dispatcher send the text
\* of its exception as the error frame, and the channel, unless it was removed under
\* the producer, ends with a terminal frame
C4_DispatcherOutcome ==
    \A id \in DOMAIN task :
        task[id].pc = "done" =>
            /\ task[id].outcome = "returned" => task[id].dispatch = "close"
            /\ task[id].outcome = "raised" =>
                  /\ task[id].dispatch = "send_error"
                  /\ task[id].dmsg = task[id].msg
            /\ EndsTerminal(sent[id]) \/ id \notin managed

\* C5: a stream request that arrives after the producer finished, on a channel nobody
\* attached to before, resolves the channel and finds every frame sent still queued,
\* terminal frame included; and when such a consumer, being the only one, has finished,
\* it has received exactly the frames sent
C5_LateConsumer ==
    [][\A c \in Consumers :
          /\ ( /\ consumer[c].st = "idle"
               /\ consumer'[c].st # "idle"
               /\ consumer'[c].ch \in DOMAIN task
               /\ task[consumer'[c].ch].pc = "done"
               /\ AttachedTo(consumer'[c].ch) = {} ) =>
                /\ consumer'[c].st = "waiting"
                /\ consumer'[c].late
                /\ chan[consumer'[c].ch].queue = sent[consumer'[c].ch]
                /\ EndsTerminal(sent[consumer'[c].ch])
          /\ ( /\ consumer'[c].st = "finished"
               /\ consumer'[c].late
               /\ AttachedTo(consumer[c].ch) = {c} ) =>
                consumer'[c].got = sent'[consumer'[c].ch]]_vars

\* a consumer that attached after the producer was done drained data and terminal frame
C5_Witness ==
    \E c \in Consumers :
        /\ consumer[c].st = "finished"
        /\ consumer[c].late
        /\ AttachedTo(consumer[c].ch) = {c}
        /\ Len(consumer[c].got) = MaxSends + 1

(***************************************************************************)
(* POST /command/{command_name}: execute_command and _execute_command      *)
(* (bridge.py); the error classes of pybridge/errors.py from spec.md 6, 7  *)
(***************************************************************************)
\* the values a handler returns
V(kind, name, items) == [kind |-> kind, name |-> name, items |-> items]

NoneV == V("none", "", <<>>)

PlainV(x) == V("plain", x, <<>>)

RecordV(c, fields) == V("record", c, fields)

ListV(items) == V("list", "", items)

DictV(values) == V("dict", "", values)

TupleV(items) == V("tuple", "", items)

\* an object the JSON encoder of the response cannot encode
OpaqueV == V("opaque", "", <<>>)

PointV == RecordV("Point", <<PlainV("1.5"), PlainV("2.5")>>)

ResultValues ==
    { NoneV,
      PlainV("7"),
      PointV,
      ListV(<<PointV, PlainV("7")>>),
      DictV(<<PointV>>),
      ListV(<<ListV(<<PointV>>)>>),
      TupleV(<<PointV, PlainV("7")>>),
      RecordV("ItemA", <<PlainV("3"), RecordV("Tag", <<PlainV("new")>>)>>),
      OpaqueV }

\* BaseModel.model_dump(): the plain form of a record, fields included
RECURSIVE ModelDump(_)
ModelDump(v) ==
    IF v.kind = "record"
    THEN DictV([i \in 1..Len(v.items) |-> ModelDump(v.items[i])])
    ELSE IF v.items # <<>>
    THEN [v EXCEPT !.items = [i \in 1..Len(v.items) |-> ModelDump(v.items[i])]]
    ELSE v

\* _execute_command: "Serialize Pydantic models"
Serialize(result) ==
    IF result.kind = "record" THEN ModelDump(result)
    ELSE IF result.kind = "list"
    THEN ListV([i \in 1..Len(result.items) |->
                   IF result.items[i].kind = "record"
                   THEN ModelDump(result.items[i]) ELSE result.items[i]])
    ELSE result

\* the exception texts tried
Texts == {"db password is hunter2", "no row 17 in table users"}

\* what the body of a handler does when it is called
Behaviours ==
    {[kind |-> "return", value |-> v, exc |-> "", text |-> ""] : v \in ResultValues \ {OpaqueV}}
    \cup {[kind |-> "return", value |-> OpaqueV, exc |-> "", text |-> t] : t \in Texts}
    \cup {[kind |-> "raise", value |-> NoneV, exc |-> e, text |-> t] :
             e \in {"ValueError", "TypeError", "KeyError"}, t \in Texts}

ArgKeys == {"name", "item", "start", "verbose"}

\* the request bodies tried: JSON objects over ArgKeys
ArgMaps == UNION {[keys -> {"x", "null"}] : keys \in SUBSET ArgKeys}

InvokedFnIds == <<"f_add", "f_points", "f_walk", "f_tick">>

ParamNames(cmd) == {cmd.params[i].name : i \in 1..Len(cmd.params)}

\* kwargs that carry every declared parameter, null when the request has none
ExecuteKwargsNullFill(cmd, args) ==
    [n \in ParamNames(cmd) |-> IF n \in DOMAIN args THEN args[n] ELSE "null"]

\* _execute_command: the kwargs it builds
ExecuteKwargs(cmd, args) ==
    [n \in {p \in ParamNames(cmd) : p \in DOMAIN args} |-> args[n]]

NoFailure == [exc |-> "", text |-> ""]

\* result = await cmd.func(**kwargs): whether the handler's body ran, the exception
\* raised inside the try block if any, and the value awaited
Call(cmd, args, beh) ==
    LET kwargs == ExecuteKwargs(cmd, args) IN
    IF ~Binds(cmd.func, DOMAIN kwargs)
    THEN [ran |-> FALSE, kwargs |-> kwargs, value |-> NoneV,
          failure |-> [exc |-> "TypeError", text |-> "missing required argument"]]
    ELSE IF beh.kind = "raise"
    THEN [ran |-> TRUE, kwargs |-> kwargs, value |-> NoneV,
          failure |-> [exc |-> beh.exc, text |-> beh.text]]
    ELSE IF ~cmd.is_async
    THEN [ran |-> TRUE, kwargs |-> kwargs, value |-> NoneV,
          failure |-> [exc |-> "TypeError", text |-> "object can't be used in 'await' expression"]]
    ELSE [ran |-> TRUE, kwargs |-> kwargs, value |-> beh.value, failure |-> NoFailure]

\* BridgeError.to_dict() as the response body, with the result slot of a success
Body(code, message, result) == [code |-> code, message |-> message, result |-> result]

\* bridge_error_handler: the status of a BridgeError
BridgeErrorStatus(code) ==
    IF code = "COMMAND_NOT_FOUND" THEN 404
    ELSE IF code = "INTERNAL_ERROR" THEN 500
    ELSE 400

\* the except clauses of _execute_command: the BridgeError raised for a failure
Raised(failure) ==
    IF failure.exc = "TypeError"
    THEN Body("VALIDATION_ERROR", <<"Invalid arguments: ", failure.text>>, NoneV)
    ELSE Body("EXECUTION_ERROR", <<failure.text>>, NoneV)

\* general_error_handler: the body for an exception that is no BridgeError
GeneralErrorBody(text, dbg) ==
    Body("INTERNAL_ERROR", IF dbg THEN <<text>> ELSE <<"An internal error occurred">>, NoneV)

\* the exchange of POST /command/name with body args, the handler behaving as beh
Respond(name, args, beh, dbg) ==
    IF get_command(name) = {}
    THEN [op |-> "command", name |-> name, args |-> args, beh |-> beh, found |-> FALSE,
          ran |-> FALSE, kwargs |-> <<>>, failure |-> NoFailure, status |-> 404,
          body |-> Body("COMMAND_NOT_FOUND", <<"Command not found: ", name>>, NoneV)]
    ELSE LET cmd == CHOOSE c \in get_command(name) : TRUE
             call == Call(cmd, args, beh)
             base == [op |-> "command", name |-> name, args |-> args, beh |-> beh,
                      found |-> TRUE, ran |-> call.ran, kwargs |-> call.kwargs,
                      failure |-> call.failure, status |-> 200,
                      body |-> Body("", <<>>, NoneV)]
         IN IF call.failure # NoFailure
            THEN [base EXCEPT !.status = BridgeErrorStatus(Raised(call.failure).code),
                              !.body = Raised(call.failure)]
            ELSE IF Serialize(call.value).kind = "opaque"
            THEN [base EXCEPT !.status = 500, !.body = GeneralErrorBody(beh.text, dbg)]
            ELSE [base EXCEPT !.body = Body("", <<>>, Serialize(call.value))]

IdleResp ==
    [op |-> "none", name |-> "", args |-> <<>>, beh |-> [kind |-> "", value |-> NoneV,
     exc |-> "", text |-> ""], found |-> FALSE, ran |-> FALSE, kwargs |-> <<>>,
     failure |-> NoFailure, status |-> 0, body |-> Body("", <<>>, NoneV)]

\* POST /command/{command_name}
ExecuteCommand(name, args, beh) ==
    /\ phase = "run"
    /\ resp.op = "none"
    /\ resp' = Respond(name, args, beh, debug)
    /\ UNCHANGED <<regVars, genVars, colVars, chanVars, debug, libVars>>

\* the caller has the response; the bridge keeps nothing of the exchange
Answered ==
    /\ resp.op = "command"
    /\ resp' = IdleResp
    /\ UNCHANGED <<regVars, genVars, colVars, chanVars, debug, libVars>>

\* the stream requests that are draining channel id
Draining(id) ==
    {c \in Consumers : consumer[c].ch = id /\ consumer[c].st \in {"waiting", "yielded"}}

\* C17 (as claimed): at no time are two stream requests draining the same channel.
C17_OneConsumer ==
    \A id \in DOMAIN chan : Cardinality(Draining(id)) <= 1

\* C18 (as claimed): the manager drops a channel only when the channel's queue is empty
\* and its terminal frame has been delivered.
C18_RemoveOnlyDrained ==
    [][\A id \in managed :
          id \notin managed' =>
              /\ chan[id].queue = <<>>
              /\ EndsTerminal(delivered[id])]_vars

\* C19: a step that ends a consumer's drain, be it the step after the terminal frame
\* was delivered or a disconnect, leaves the channel's id unresolved by the manager, and
\* an id the manager dropped is never resolved again; and with the stream responses
\* being pulled, a channel whose producer is done and to which a consumer attached is
\* eventually dropped by the manager
C19_DrainEndRemoves ==
    /\ [][\A c \in Consumers :
             (c \in Draining(consumer[c].ch)
              /\ consumer'[c].st \in {"finished", "disconnected"}) =>
                 /\ consumer[c].ch \notin managed'
                 /\ ~Resolves(consumer[c].ch)']_vars
    /\ [][\A id \in DOMAIN chan : id \notin managed => id \notin managed']_vars
    /\ \A id \in ChannelIds :
          (id \in DOMAIN task /\ task[id].pc = "done" /\ AttachedTo(id) # {})
              ~> (id \notin managed)

\* a consumer dropped the stream after a data frame, before any terminal frame, and the
\* manager no longer resolves the channel
C19_Witness ==
    \E c \in Consumers :
        /\ consumer[c].st = "disconnected"
        /\ consumer[c].got # <<>>
        /\ ~EndsTerminal(consumer[c].got)
        /\ ~Resolves(consumer[c].ch)
        /\ task[consumer[c].ch].pc = "done"

(***************************************************************************)
(* collect_models_from_type call by call.  Each step is one call: it takes *)
(* the hint of the next call to make and puts the calls that call makes,   *)
(* in their order, before the calls that were already due.                 *)
(***************************************************************************)
\* the hints the decorator hands to collect_models_from_type
RootHints ==
    UNION {{FnDef(f).sig[i].type : i \in 1..Len(FnDef(f).sig)} \cup {FnDef(f).ret} : f \in FnIds}
    \cup {ModelT(c) : c \in Classes}
    \cup {NoHint, SetT(UnionT(<<ModelT("Pong"), ModelT("ItemB"), IntT>>))}

\* _registry.collect_models_from_type(t), called from outside
CollectCall(t) ==
    /\ phase = "import"
    /\ stack = <<>>
    /\ stack' = <<t>>
    /\ root' = t
    /\ stored' = <<>>
    /\ lastOp' = Op("collect", "", NoError)
    /\ UNCHANGED <<commands, models, phase, genVars, chanVars, reqVars, libVars>>

\* the body of one call
CollectStep ==
    /\ stack # <<>>
    /\ LET t == Head(stack)
           due == Tail(stack)
       IN IF t.kind = "nohint"
          THEN stack' = due /\ UNCHANGED <<models, stored>>
          ELSE IF t.kind \in GenericKinds
          THEN stack' = t.args \o due /\ UNCHANGED <<models, stored>>
          ELSE IF t.kind = "model" /\ ClassName(t.name) \notin DOMAIN models
          THEN /\ models' = models @@ (ClassName(t.name) :> t.name)
               /\ stored' = Append(stored, ClassName(t.name))
               /\ stack' = FieldTypes(t.name) \o due
          ELSE stack' = due /\ UNCHANGED <<models, stored>>
    /\ UNCHANGED <<commands, lastOp, phase, root, genVars, chanVars, reqVars, libVars>>

NextCollect ==
    \/ \E t \in RootHints : CollectCall(t)
    \/ CollectStep
    \/ \E c \in DirectModels : RegisterModel(c)
    \/ Reset

\* what is left of a running call ends as the recursive definition says
CollectStepAgrees ==
    [][CollectStep => CollectSeq(stack', models') = CollectSeq(stack, models)]_vars

(***************************************************************************)
(* Registry claims                                                         *)
(***************************************************************************)
\* every step but reset keeps each stored command where it is
CommandsKept ==
    \A i \in 1..Len(commands) : Len(commands') >= i /\ commands'[i] = commands[i]

\* every step but reset keeps each stored model under its name
ModelsKept ==
    \A n \in DOMAIN models : n \in DOMAIN models' /\ models'[n] = models[n]

StoredModule(name) == (CHOOSE c \in get_command(name) : TRUE).module

\* C1: registering a command whose name is already registered fails with a name
\* conflict whose message names the module of the stored command and the module of
\* the new one, and the entry stored under the name stays the first one registered.
C1_NameConflict ==
    [][ /\ \A f \in FnIds :
              (Command(f) /\ FnDef(f).fname \in CommandNames) =>
                  /\ lastOp'.err = <<"Command name conflict", FnDef(f).fname,
                                     StoredModule(FnDef(f).fname), FnDef(f).module>>
                  /\ commands' = commands
        /\ ~Reset => CommandsKept ]_vars

C1_Witness ==
    /\ lastOp.op = "command"
    /\ lastOp.err # NoError
    /\ lastOp.err[3] # lastOp.err[4]
    /\ StoredModule(lastOp.err[2]) = lastOp.err[3]
    /\ FnDef(lastOp.arg).module = lastOp.err[4]

\* C7: registering a model whose name is already in the model registry changes
\* nothing and raises nothing: the name keeps the definition registered first, and
\* registering a model again leaves the registry as registering it once left it.
C7_RegisterModelIdempotent ==
    [][ /\ \A c \in DirectModels :
              RegisterModel(c) =>
                  /\ lastOp'.err = NoError
                  /\ ClassName(c) \in DOMAIN models => models' = models
                  /\ ClassName(c) \notin DOMAIN models => models'[ClassName(c)] = c
                  /\ RegisterModelResult(c, models') = models'
        /\ ~Reset => ModelsKept ]_vars

C7_Witness ==
    /\ lastOp.op = "register_model"
    /\ lastOp.err = NoError
    /\ ClassName(lastOp.arg) \in DOMAIN models
    /\ models[ClassName(lastOp.arg)] # lastOp.arg

\* the classes a hint mentions, through any nesting of containers
RECURSIVE ClassesIn(_)
ClassesIn(t) ==
    IF t.kind = "model" THEN {t.name}
    ELSE UNION {ClassesIn(t.args[i]) : i \in 1..Len(t.args)}

FieldClasses(c) == UNION {ClassesIn(ModelFields(c)[i].type) : i \in 1..Len(ModelFields(c))}

\* the least set of classes that holds S and the classes of the fields of its members
RECURSIVE ReachableFrom(_)
ReachableFrom(S) ==
    LET more == S \cup UNION {FieldClasses(c) : c \in S}
    IN IF more = S THEN S ELSE ReachableFrom(more)

\* the records reachable from a command's parameter, return and stream payload types
CommandRecords(cmd) ==
    ReachableFrom(UNION {ClassesIn(cmd.params[i].type) : i \in 1..Len(cmd.params)}
                  \cup ClassesIn(cmd.return_type)
                  \cup (IF cmd.has_channel /\ ChannelHintArgs(cmd.func) # <<>>
                        THEN ClassesIn(ChannelHintArgs(cmd.func)[1]) ELSE {}))

\* C9 (as claimed): after a successful command registration the model registry holds
\* the name of every record reachable from the command's types.
C9_ReachableRegistered ==
    (lastOp.op = "command" /\ lastOp.err = NoError) =>
        \A c \in CommandRecords(commands[Len(commands)]) : ClassName(c) \in DOMAIN models

\* C10 (as claimed): the command listing is sorted by name, whatever the order of
\* registration.
C10_ListSorted ==
    \A i \in 1..(Len(list_commands) - 1) :
        NameLess(list_commands[i].name, list_commands[i + 1].name)

(***************************************************************************)
(* Collection claims                                                       *)
(***************************************************************************)
RECURSIVE HintSize(_)
RECURSIVE HintsSize(_)
HintSize(t) == 1 + HintsSize(t.args)

HintsSize(ts) == IF ts = <<>> THEN 0 ELSE HintSize(Head(ts)) + HintsSize(Tail(ts))

\* more than the calls storing one model can add
StoreWeight ==
    1 + (CHOOSE n \in 0..50 :
            /\ \A c \in Classes : HintsSize(FieldTypes(c)) <= n
            /\ \E c \in Classes : HintsSize(FieldTypes(c)) = n)

\* the work a running collect call has left: it falls with every call made
CollectRank ==
    Cardinality({ClassName(c) : c \in Classes} \ DOMAIN models) * StoreWeight
    + HintsSize(stack)

NoDuplicates(seq) == \A i, j \in 1..Len(seq) : seq[i] = seq[j] => i = j

\* every call of a collect brings its end nearer, whatever the record graph, and
\* no name is stored twice
CollectTerminates ==
    [][CollectStep => CollectRank' < CollectRank /\ NoDuplicates(stored')]_vars

\* C8 (as claimed): collect_models_from_type terminates on every record graph,
\* cyclic ones included, and when it returns the name of each record reachable from
\* its argument is in the model registry, stored once.
C8_CollectReachable ==
    [][CollectStep =>
          /\ CollectRank' < CollectRank
          /\ NoDuplicates(stored')
          /\ stack' = <<>> =>
                 \A c \in ReachableFrom(ClassesIn(root)) : ClassName(c) \in DOMAIN models']_vars

(***************************************************************************)
(* Generator claims                                                        *)
(***************************************************************************)
\* C6 (as claimed): a generate call that follows another one, with no registration
\* in between, writes the same main file content.
C6_Deterministic ==
    (lastOp.op = "generate" /\ lastOp.err = NoError /\ prevMain # <<>>) =>
        files.main = prevMain

\* the names generate's loop had in models_to_generate when it ended
Requested(cmds, registry) ==
    GenerateInterfaces(Worklist(cmds, registry), registry).models_to_generate

\* C11 (as claimed): a generate call that completed had every pending record name
\* resolved by the model registry; with an unresolved name it fails.
C11_UnresolvedIsFatal ==
    (lastOp.op = "generate" /\ lastOp.err = NoError) =>
        Requested(get_all_commands, models) \subseteq DOMAIN models

\* the records reachable from the types of any registered command
AllCommandRecords ==
    UNION {CommandRecords(commands[i]) : i \in 1..Len(commands)}

Occurrences(texts, text) == {i \in 1..Len(texts) : texts[i] = text}

\* C12 (as claimed): the generated file declares every record reachable from a
\* command's parameter, return or stream payload type exactly once, and declares no
\* record twice.
C12_OneDeclarationEach ==
    (lastOp.op = "generate" /\ lastOp.err = NoError) =>
        LET interfaces == files.main[1].interfaces IN
        /\ \A c \in AllCommandRecords :
              Cardinality(Occurrences(interfaces, GenerateModelInterface(c))) = 1
        /\ \A i, j \in 1..Len(interfaces) : interfaces[i] = interfaces[j] => i = j

\* no record is declared twice, and what is declared is what the registry resolves
DeclaredOnce ==
    (lastOp.op = "generate" /\ lastOp.err = NoError) =>
        LET interfaces == files.main[1].interfaces IN
        /\ \A i, j \in 1..Len(interfaces) : interfaces[i] = interfaces[j] => i = j
        /\ \A n \in DOMAIN models :
              Cardinality(Occurrences(interfaces, GenerateModelInterface(models[n]))) = 1
        /\ Len(interfaces) = Cardinality(DOMAIN models)

\* every record name there is
AllNames == {ClassName(c) : c \in Classes}

DrainRank == Cardinality(AllNames \ work.st.generated_models)

\* C13: every pass of the worklist loop processes at least one name that was not
\* processed before, out of the finite set of record names, so the loop ends; and when
\* it is left no name is pending: every name that was put on the worklist, before the
\* loop or while a declaration was emitted, has been processed
C13_DrainTerminates ==
    [][ /\ DrainPass =>
              /\ DrainRank' < DrainRank
              /\ work.st.generated_models \subseteq work'.st.generated_models
              /\ work'.st.models_to_generate \subseteq AllNames
        /\ DrainEnd =>
              /\ Pending(work'.st) = {}
              /\ work'.st.models_to_generate \subseteq work'.st.generated_models
              /\ work'.passes <= Cardinality(AllNames) ]_vars

\* the loop was left after a second pass that processed a name the first pass had
\* put on the worklist, with a self-referential record among the names
C13_Witness ==
    /\ work.pc = "done"
    /\ work.passes = 2
    /\ "Node" \in work.st.generated_models

(***************************************************************************)
(* Request/response claims                                                 *)
(***************************************************************************)
StoredCommand(name) == CHOOSE c \in get_command(name) : TRUE

\* C14: the kwargs _execute_command hands to the handler are exactly the entries of the
\* request's args whose keys are declared parameters of the command, values as given:
\* no other key reaches the handler and a declared parameter the args lack is not
\* among the kwargs at all
C14_BindsDeclaredOnly ==
    (resp.op = "command" /\ resp.found) =>
        LET declared == ParamNames(StoredCommand(resp.name)) IN
        /\ DOMAIN resp.kwargs = declared \cap DOMAIN resp.args
        /\ \A k \in DOMAIN resp.kwargs : resp.kwargs[k] = resp.args[k]
        /\ \A k \in declared \ DOMAIN resp.args : k \notin DOMAIN resp.kwargs

\* the handler ran on two of three entries: the undeclared key was left out, and a
\* null the caller sent was passed on as sent
C14_Witness ==
    /\ resp.op = "command"
    /\ resp.ran
    /\ DOMAIN resp.args = {"name", "item", "verbose"}
    /\ DOMAIN resp.kwargs = {"name", "item"}
    /\ resp.args["item"] = "null"
    /\ resp.status = 200

\* C15 (as claimed): the request fails with ValidationError exactly when the arguments
\* did not bind to the handler's parameters, and with CommandExecutionError carrying the
\* failure's message for every failure raised by the handler while it ran.
C15_ErrorClasses ==
    (resp.op = "command" /\ resp.found) =>
        /\ resp.body.code = "VALIDATION_ERROR" <=> ~resp.ran
        /\ (resp.ran /\ resp.beh.kind = "raise") =>
              /\ resp.body.code = "EXECUTION_ERROR"
              /\ resp.body.message = <<resp.beh.text>>

RECURSIVE HasRecord(_)
HasRecord(v) ==
    \/ v.kind = "record"
    \/ \E i \in 1..Len(v.items) : HasRecord(v.items[i])

\* C16 (as claimed): the result of a successful request holds no record that was not
\* turned into its plain field form, wherever in the result it occurs.
C16_ResultNormalized ==
    (resp.op = "command" /\ resp.status = 200) => ~HasRecord(resp.body.result)

\* C20 (as claimed): with debug off, the error body of a request that failed inside
\* the handler or the bridge is the same whatever the text of that failure.
C20_NoLeak ==
    (resp.op = "command" /\ ~debug /\ resp.status >= 400 /\ resp.beh.text # "") =>
        \A t \in Texts :
            Respond(resp.name, resp.args, [resp.beh EXCEPT !.text = t], debug).body = resp.body

\* the unexpected internal fault is masked when debug is off
InternalFaultMasked ==
    (resp.op = "command" /\ ~debug /\ resp.body.code = "INTERNAL_ERROR") =>
        resp.body.message = <<"An internal error occurred">>

(***************************************************************************)
(* The client runtime's key conversions (_internal.ts, generator.py) and   *)
(* the identifiers they are applied to                                     *)
(***************************************************************************)
MaxIdentLen == 3

\* a lower-case letter, a second one, an upper-case letter, the underscore, a digit
IdentChars == {"a", "b", "B", "_", "2"}

RECURSIVE SeqsUpTo(_, _)
SeqsUpTo(S, n) ==
    IF n = 0 THEN {<<>>}
    ELSE LET shorter == SeqsUpTo(S, n - 1)
         IN shorter \cup {Append(cs, ch) : cs \in shorter, ch \in S}

\* the Python identifiers over IdentChars: not empty, not starting with a digit
Identifiers == {cs \in SeqsUpTo(IdentChars, MaxIdentLen) : cs # <<>> /\ Head(cs) # "2"}

\* convertKeysToSnakeCase on one key: key.replace(/[A-Z]/g, (m) => `_${m.toLowerCase()}`)
RECURSIVE SnakeKey(_)
SnakeKey(cs) ==
    IF cs = <<>> THEN <<>>
    ELSE IF IsUpper(Head(cs)) THEN <<"_", ToLower(Head(cs))>> \o SnakeKey(Tail(cs))
    ELSE <<Head(cs)>> \o SnakeKey(Tail(cs))

\* convertKeysToCamelCase on one key: key.replace(/_([a-z])/g, (_, c) => c.toUpperCase())
RECURSIVE CamelKey(_)
CamelKey(cs) ==
    IF cs = <<>> THEN <<>>
    ELSE IF Head(cs) = "_" /\ Len(cs) >= 2 /\ IsLower(cs[2])
    THEN <<ToUpper(cs[2])>> \o CamelKey(SubSeq(cs, 3, Len(cs)))
    ELSE <<Head(cs)>> \o CamelKey(Tail(cs))

IdleCasing ==
    [ident |-> <<>>, emitted |-> <<>>, back |-> <<>>, forward |-> <<>>, done |-> FALSE]

\* the identifier goes through the generator and both runtime conversions: the name
\* emitted in the client source, that name as request() sends it, and the original
\* as a response key reaches the caller
Convert ==
    /\ ~casing.done
    /\ casing.ident # <<>>
    /\ casing' = [ident |-> casing.ident,
                  emitted |-> CamelChars(casing.ident),
                  back |-> SnakeKey(CamelChars(casing.ident)),
                  forward |-> CamelKey(casing.ident),
                  done |-> TRUE]
    /\ UNCHANGED <<regVars, genVars, colVars, chanVars, reqVars, instance, extracted, ws, wscall>>

(***************************************************************************)
(* _extract_event_types (zynk/websocket.py)                                *)
(***************************************************************************)
\* event names, by their characters
EventNames ==
    {<<"c", "h", "a", "t">>, <<"s", "t", "a", "t", "u", "s">>, <<"_", "p", "i", "n", "g">>}

\* an annotation written as the type itself
TypeAnn(t) == [written |-> t, type |-> t]

\* an annotation written as a string naming a type the lookup of get_type_hints does
\* not reach (a class local to a function)
ForwardAnn(t) == [written |-> "'" \o t \o "'", type |-> t]

Annotations == {TypeAnn("ChatMessage"), ForwardAnn("Progress")}

\* the annotations a base class contributes
BaseAnnotations == {<<>>, (<<"j", "o", "i", "n">> :> TypeAnn("Joined"))}

NoEventsClass == [is_none |-> TRUE, own |-> <<>>, inherited |-> <<>>]

\* None, and the classes that annotate any of the event names either way, with or
\* without an annotated base class
EventsClasses ==
    {NoEventsClass} \cup
    {[is_none |-> FALSE, own |-> own, inherited |-> base] :
        own \in UNION {[names -> Annotations] : names \in SUBSET EventNames},
        base \in BaseAnnotations}

\* name.startswith("_")
StartsWithUnderscore(name) == name # <<>> /\ Head(name) = "_"

\* typing.get_type_hints(cls): whether it returns, and the merged hints along the MRO
HintsResolve(cls) ==
    \A n \in DOMAIN cls.own : cls.own[n].written = cls.own[n].type

get_type_hints(cls) ==
    [n \in DOMAIN cls.own \cup DOMAIN cls.inherited |->
        IF n \in DOMAIN cls.own THEN cls.own[n].type ELSE cls.inherited[n].type]

\* _extract_event_types(events_class)
extract_event_types(cls) ==
    IF cls.is_none THEN <<>>
    ELSE LET hints == IF HintsResolve(cls) THEN get_type_hints(cls) ELSE <<>>
             event_types == [n \in {k \in DOMAIN hints : ~StartsWithUnderscore(k)} |-> hints[n]]
             fallback == {n \in DOMAIN cls.own :
                             ~StartsWithUnderscore(n) /\ n \notin DOMAIN event_types}
         IN [n \in DOMAIN event_types \cup fallback |->
                IF n \in DOMAIN event_types THEN event_types[n] ELSE cls.own[n].written]

NotExtracted == [cls |-> NoEventsClass, result |-> <<>>, done |-> FALSE]

\* WebSocket.__init__ reading one of its events classes
ExtractEvents ==
    /\ ~extracted.done
    /\ extracted' = [extracted EXCEPT !.result = extract_event_types(extracted.cls),
                                      !.done = TRUE]
    /\ UNCHANGED <<regVars, genVars, colVars, chanVars, reqVars, instance, casing, ws, wscall>>

(***************************************************************************)
(* zynk WebSocket (zynk/websocket.py) over the server's socket object      *)
(***************************************************************************)
MaxTasks == 2

MaxWsSends == 2

Tasks == 1..MaxTasks

WsEvents == {"chat_message"}

\* what callers pass to send: a string, a model, a list of models
WsData == {PlainV("hi"), PointV, ListV(<<PointV>>)}

\* what a registered handler does with a message: nothing, answer, close, fail
HandlerActs == {"none", "send", "close", "raise"}

\* the wrapper as __init__ leaves it, over a socket the application has not accepted
NewWebSocket ==
    [status |-> "connecting", closed_event |-> FALSE, app |-> "connecting", handed |-> <<>>]

IdleCall ==
    [op |-> "none", pc |-> "idle", outcome |-> "none", exc |-> "", at |-> "",
     event |-> "", data |-> NoneV]

Called(op, pc, at) ==
    [op |-> op, pc |-> pc, outcome |-> "none", exc |-> "", at |-> at,
     event |-> "", data |-> NoneV]

Returned(c) == [c EXCEPT !.pc = "done", !.outcome = "returned"]

RaisedIn(c, exc) == [c EXCEPT !.pc = "done", !.outcome = "raised", !.exc = exc]

Free(t) == wscall[t].pc \in {"idle", "done"}

is_connected == ws.status = "connected"

\* self._websocket.accept(): the socket sends the accept message only while the
\* application side of the connection is still connecting, and raises otherwise
SocketAccepts(app) == app = "connecting"

\* self._websocket.close(), send_text() and receive_text(): the socket serves them only
\* while the application side is connected, and raises otherwise
SocketOpen(app) == app = "connected"

\* json.dumps: whether the encoder takes the value
RECURSIVE JsonEncodable(_)
JsonEncodable(v) ==
    /\ v.kind \notin {"record", "opaque"}
    /\ \A i \in 1..Len(v.items) : JsonEncodable(v.items[i])

\* send: "Serialize Pydantic models"
WsSerialize(data) == IF data.kind = "record" THEN ModelDump(data) ELSE data

\* WebSocketMessage(event, data), as to_json spells it
WebSocketMessage(event, data) == [event |-> event, data |-> data]

WsUnchanged == UNCHANGED <<regVars, genVars, colVars, chanVars, reqVars, instance, casing, extracted>>

\* await ws.accept(), up to the return of the socket's accept
CallAccept(t) ==
    /\ Free(t)
    /\ IF SocketAccepts(ws.app)
       THEN /\ ws' = [ws EXCEPT !.app = "connected"]
            /\ wscall' = [wscall EXCEPT ![t] = Called("accept", "accepting", ws.status)]
       ELSE /\ wscall' = [wscall EXCEPT ![t] = RaisedIn(Called("accept", "", ws.status), "RuntimeError")]
            /\ UNCHANGED ws
    /\ WsUnchanged

\* accept resumes: self._status = CONNECTED
AcceptDone(t) ==
    /\ wscall[t].op = "accept" /\ wscall[t].pc = "accepting"
    /\ ws' = [ws EXCEPT !.status = "connected"]
    /\ wscall' = [wscall EXCEPT ![t] = Returned(@)]
    /\ WsUnchanged

\* await ws.close(), up to the return of the socket's close; in any status but
\* CONNECTED the method does nothing
CallClose(t) ==
    /\ Free(t)
    /\ IF ~is_connected
       THEN /\ wscall' = [wscall EXCEPT ![t] = Returned(Called("close", "", ws.status))]
            /\ UNCHANGED ws
       ELSE IF SocketOpen(ws.app)
       THEN /\ ws' = [ws EXCEPT !.app = "disconnected"]
            /\ wscall' = [wscall EXCEPT ![t] = Called("close", "closing", ws.status)]
       ELSE /\ wscall' = [wscall EXCEPT ![t] = RaisedIn(Called("close", "", ws.status), "RuntimeError")]
            /\ UNCHANGED ws
    /\ WsUnchanged

\* close resumes: self._status = DISCONNECTED; self._closed_event.set()
CloseDone(t) ==
    /\ wscall[t].op = "close" /\ wscall[t].pc = "closing"
    /\ ws' = [ws EXCEPT !.status = "disconnected", !.closed_event = TRUE]
    /\ wscall' = [wscall EXCEPT ![t] = Returned(@)]
    /\ WsUnchanged

\* the wrapper after send(event, data) and how the call ended: [ws, exc]
SendResult(w, event, data) ==
    IF w.status # "connected" THEN [ws |-> w, exc |-> "RuntimeError"]
    ELSE IF ~JsonEncodable(WsSerialize(data)) THEN [ws |-> w, exc |-> "TypeError"]
    ELSE [ws |-> [w EXCEPT !.handed = Append(@, WebSocketMessage(event, WsSerialize(data)))],
          exc |-> IF SocketOpen(w.app) THEN "" ELSE "RuntimeError"]

\* await ws.send(event, data)
CallSend(t, event, data) ==
    LET r == SendResult(ws, event, data)
        c == [Called("send", "", ws.status) EXCEPT !.event = event, !.data = data]
    IN /\ Free(t)
       /\ Len(ws.handed) < MaxWsSends
       /\ ws' = r.ws
       /\ wscall' = [wscall EXCEPT ![t] = IF r.exc = "" THEN Returned(c) ELSE RaisedIn(c, r.exc)]
       /\ WsUnchanged

\* await ws.listen(), up to its loop: a wrapper that is not connected accepts first,
\* and an accept that raises ends listen before its try statement
CallListen(t) ==
    /\ Free(t)
    /\ IF is_connected
       THEN /\ wscall' = [wscall EXCEPT ![t] = Called("listen", "listening", ws.status)]
            /\ UNCHANGED ws
       ELSE IF SocketAccepts(ws.app)
       THEN /\ ws' = [ws EXCEPT !.app = "connected"]
            /\ wscall' = [wscall EXCEPT ![t] = Called("listen", "accepting", ws.status)]
       ELSE /\ wscall' = [wscall EXCEPT ![t] = RaisedIn(Called("listen", "", ws.status), "RuntimeError")]
            /\ UNCHANGED ws
    /\ WsUnchanged

\* listen's accept resumes: self._status = CONNECTED, and the loop is entered
ListenAccepted(t) ==
    /\ wscall[t].op = "listen" /\ wscall[t].pc = "accepting"
    /\ ws' = [ws EXCEPT !.status = "connected"]
    /\ wscall' = [wscall EXCEPT ![t].pc = "listening"]
    /\ WsUnchanged

\* a handler call made by _handle_message, whose except clauses swallow what it raises
HandlerResult(w, act) ==
    IF act = "send" /\ Len(w.handed) < MaxWsSends
    THEN SendResult(w, "chat_message", PlainV("hi")).ws
    ELSE IF act = "close" /\ w.status = "connected" /\ SocketOpen(w.app)
    THEN [w EXCEPT !.app = "disconnected", !.status = "disconnected", !.closed_event = TRUE]
    ELSE w

\* one turn of listen's loop: a text message is received and handled
ListenReceive(t, act) ==
    /\ wscall[t].op = "listen" /\ wscall[t].pc = "listening"
    /\ is_connected
    /\ SocketOpen(ws.app)
    /\ ws' = HandlerResult(ws, act)
    /\ UNCHANGED wscall
    /\ WsUnchanged

\* a listen that leaves its status alone when it ends
ListenFinallyKeepsStatus(w) == [w EXCEPT !.closed_event = TRUE]

\* listen's finally clause
ListenFinally(w) == [w EXCEPT !.status = "disconnected", !.closed_event = TRUE]

\* listen ends: the loop test fails, or receive_text raises WebSocketDisconnect or
\* another exception; the finally clause runs and listen returns
ListenStops(t, why) ==
    /\ wscall[t].op = "listen" /\ wscall[t].pc = "listening"
    /\ why = "loop_test" => ~is_connected
    /\ ws' = ListenFinally(ws)
    /\ wscall' = [wscall EXCEPT ![t] = Returned(@)]
    /\ WsUnchanged

\* await ws.wait_closed(): the task waits on the event
CallWaitClosed(t) ==
    /\ Free(t)
    /\ wscall' = [wscall EXCEPT ![t] = Called("wait_closed", "waiting", ws.status)]
    /\ UNCHANGED ws
    /\ WsUnchanged

\* the event is set and the waiter returns
WaitReturn(t) ==
    /\ wscall[t].op = "wait_closed" /\ wscall[t].pc = "waiting"
    /\ ws.closed_event
    /\ wscall' = [wscall EXCEPT ![t] = Returned(@)]
    /\ UNCHANGED ws
    /\ WsUnchanged

(***************************************************************************)
(* Claims on failure of generate, casing and stub names                    *)
(***************************************************************************)
\* C21 (as claimed): a generate call that fails leaves every output file exactly as
\* it was, since nothing is written to an output path before the whole content has
\* been assembled.
C21_FailureWritesNothing ==
    [][\A step \in GenerateSteps : GenerateFails(step) => files' = files]_vars

\* C22 (as claimed): the name the generator emits for an identifier is taken back to
\* the identifier by the runtime's camel-to-snake conversion, and the runtime's
\* snake-to-camel conversion of the identifier is the emitted name.
C22_CasingRoundTrip ==
    casing.done => (casing.back = casing.ident /\ casing.forward = casing.emitted)

\* the two conversions of the runtime undo each other on the identifiers made of
\* lower-case letters with single underscores between them
PlainSnake(cs) ==
    /\ \A i \in 1..Len(cs) : IsLower(cs[i]) \/ cs[i] = "_"
    /\ IsLower(cs[1]) /\ IsLower(cs[Len(cs)])
    /\ \A i \in 1..(Len(cs) - 1) : ~(cs[i] = "_" /\ cs[i + 1] = "_")

PlainSnakeRoundTrips ==
    (casing.done /\ PlainSnake(casing.ident)) =>
        (casing.back = casing.ident /\ casing.forward = casing.emitted)

\* C28 (as claimed): two distinct command names of the registry never get the same
\* stub function name from the snake-to-camel transform.
C28_DistinctStubNames ==
    \A i, j \in 1..Len(commands) :
        commands[i].name # commands[j].name =>
            python_name_to_camel_case(commands[i].name)
                # python_name_to_camel_case(commands[j].name)

(***************************************************************************)
(* Claims on reset and on a rejected registration                          *)
(***************************************************************************)
\* C25: after reset the registry holds no command and no model, every function can be
\* registered under its name without a conflict, and the singleton is the object it
\* was before.
C25_ResetEmpties ==
    [][Reset => /\ commands' = <<>>
                /\ models' = <<>>
                /\ instance' = instance /\ instance' # 0
                /\ \A f \in FnIds :
                       RegisterError(Decorate(f, models').cmd, commands') = NoError]_vars

C25_Witness ==
    /\ lastOp.op = "reset" /\ lastOp.arg = "cleared"
    /\ commands = <<>> /\ models = <<>>
    /\ instance = 1

\* C26 (as claimed): a @command registration that fails with a name conflict leaves
\* the command registry and the model registry as they were.
C26_RejectedLeavesRegistries ==
    [][\A f \in FnIds :
          (Command(f) /\ RegisterError(Decorate(f, models).cmd, commands) # NoError) =>
              (commands' = commands /\ models' = models)]_vars

(***************************************************************************)
(* Claim on the channel argument of a streaming handler                    *)
(***************************************************************************)
\* C27: no registered command has a declared parameter named channel, and the channel
\* argument of every streaming handler call is the channel the manager created for
\* the invocation, whatever keys the caller's args carry.
C27_ChannelFromManager ==
    /\ \A i \in 1..Len(commands) : \A j \in 1..Len(commands[i].params) :
           commands[i].params[j].name # "channel"
    /\ \A id \in 1..Len(task) : task[id].kwargs["channel"] = "manager"

C27_Witness ==
    \E id \in 1..Len(task) :
        /\ "channel" \in task[id].args
        /\ task[id].pc # "created"
        /\ task[id].kwargs["channel"] = "manager"

(***************************************************************************)
(* WebSocket claims                                                        *)
(***************************************************************************)
\* C23 (as claimed): send raises RuntimeError and hands nothing to the socket when the
\* status is not CONNECTED; in status CONNECTED it hands the socket exactly one
\* message, carrying the event name and the data it was given.
C23_SendGuardedAndExact ==
    [][\A t \in Tasks, event \in WsEvents, data \in WsData :
          CallSend(t, event, data) =>
              IF ws.status # "connected"
              THEN /\ wscall'[t].outcome = "raised" /\ wscall'[t].exc = "RuntimeError"
                   /\ ws'.handed = ws.handed
              ELSE ws'.handed = Append(ws.handed, WebSocketMessage(event, WsSerialize(data)))]_vars

\* the guard alone: outside CONNECTED, send raises RuntimeError and hands over nothing
SendRefusedUnlessConnected ==
    [][\A t \in Tasks, event \in WsEvents, data \in WsData :
          (CallSend(t, event, data) /\ ws.status # "connected") =>
              /\ wscall'[t].outcome = "raised" /\ wscall'[t].exc = "RuntimeError"
              /\ ws'.handed = ws.handed]_vars

\* C24 (as claimed): the map returned for an events class holds exactly the annotated
\* names that do not start with an underscore, each with its annotated type, and is
\* empty for None.
C24_ExtractsAnnotated ==
    extracted.done =>
        LET cls == extracted.cls
            annotated == DOMAIN cls.own \cup DOMAIN cls.inherited
        IN extracted.result =
               IF cls.is_none THEN <<>>
               ELSE [n \in {k \in annotated : ~StartsWithUnderscore(k)} |->
                        IF n \in DOMAIN cls.own THEN cls.own[n].type ELSE cls.inherited[n].type]

\* the same for the classes whose annotations get_type_hints resolves
ExtractsResolvedHints ==
    (extracted.done /\ ~extracted.cls.is_none /\ HintsResolve(extracted.cls)) =>
        extracted.result =
            [n \in {k \in DOMAIN get_type_hints(extracted.cls) : ~StartsWithUnderscore(k)} |->
                get_type_hints(extracted.cls)[n]]

StatusRank(s) ==
    CASE s = "connecting" -> 0
      [] s = "connected" -> 1
      [] s = "disconnected" -> 2

\* C29: no step takes the status back from DISCONNECTED to CONNECTED or from either to
\* CONNECTING, and a listen call that returns leaves the status DISCONNECTED.
C29_StatusForward ==
    [][/\ StatusRank(ws'.status) >= StatusRank(ws.status)
       /\ \A t \in Tasks :
              (wscall[t].pc # "done" /\ wscall'[t].op = "listen" /\ wscall'[t].outcome = "returned") =>
                  ws'.status = "disconnected"]_vars

C29_Witness ==
    /\ ws.status = "disconnected"
    /\ \E t, u \in Tasks :
           /\ wscall[t].op = "listen" /\ wscall[t].outcome = "returned"
           /\ wscall[u].op = "accept" /\ wscall[u].at = "disconnected" /\ wscall[u].outcome = "raised"

\* C30 (as claimed): once a close call, made in whatever status, or a listen call has
\* returned, the closed event is set, so that pending and later wait_closed calls
\* return.
C30_CloseReleasesWaiters ==
    \A t \in Tasks :
        (wscall[t].op \in {"close", "listen"} /\ wscall[t].outcome = "returned") =>
            ws.closed_event

\* the part that holds: a listen call that returned, or a close call made in status
\* CONNECTED that returned, has set the event
ListenReleasesWaiters ==
    \A t \in Tasks :
        (/\ wscall[t].outcome = "returned"
         /\ wscall[t].op = "listen" \/ (wscall[t].op = "close" /\ wscall[t].at = "connected")) =>
            ws.closed_event

InitBase ==
    /\ commands = <<>>
    /\ models = <<>>
    /\ lastOp = Op("init", "", NoError)
    /\ clock = 0
    /\ files = [internal |-> <<>>, main |-> <<>>]
    /\ prevMain = <<>>
    /\ phase = "import"
    /\ stack = <<>>
    /\ root = NoHint
    /\ stored = <<>>
    /\ chan = <<>>
    /\ managed = {}
    /\ sent = <<>>
    /\ delivered = <<>>
    /\ task = <<>>
    /\ consumer = [c \in Consumers |-> IdleConsumer]
    /\ work = IdleWork
    /\ debug = FALSE
    /\ resp = IdleResp

\* no identifier converted, no events class read, a WebSocket just constructed
InitLib ==
    /\ instance = 1
    /\ casing = IdleCasing
    /\ extracted = NotExtracted
    /\ ws = NewWebSocket
    /\ wscall = [t \in Tasks |-> IdleCall]

Init == InitBase /\ InitLib

Next ==
    \/ \E f \in FnIds : Command(f)
    \/ \E c \in DirectModels : RegisterModel(c)
    \/ Reset
    \/ Generate
    \/ \E step \in GenerateSteps : GenerateFails(step)
    \/ Tick

Spec == Init /\ [][Next]_vars

\* the served application: its modules are imported, the bridge runs
InitServing ==
    LET reg == Imported(ServedFnIds, [commands |-> <<>>, models |-> <<>>]) IN
    /\ commands = reg.commands
    /\ models = reg.models
    /\ lastOp = Op("init", "", NoError)
    /\ clock = 0
    /\ files = [internal |-> <<>>, main |-> <<>>]
    /\ prevMain = <<>>
    /\ phase = "run"
    /\ stack = <<>>
    /\ root = NoHint
    /\ stored = <<>>
    /\ chan = <<>>
    /\ managed = {}
    /\ sent = <<>>
    /\ delivered = <<>>
    /\ task = <<>>
    /\ consumer = [c \in Consumers |-> IdleConsumer]
    /\ work = IdleWork
    /\ debug = FALSE
    /\ resp = IdleResp
    /\ InitLib

NextChannel ==
    \/ \E name \in {"tick", "log_lines", "list_points", "missing"}, argKeys \in ArgKeySets :
           InitChannel(name, argKeys)
    \/ \E id \in ChannelIds : TaskStart(id)
    \/ \E id \in ChannelIds, data \in Payloads : HandlerSend(id, data)
    \/ \E id \in ChannelIds : HandlerClose(id)
    \/ \E id \in ChannelIds : HandlerSendError(id)
    \/ \E id \in ChannelIds : HandlerReturn(id)
    \/ \E id \in ChannelIds : HandlerRaise(id)
    \/ \E c \in Consumers, id \in ChannelIds : Attach(c, id)
    \/ \E c \in Consumers : StreamNext(c)
    \/ \E c \in Consumers : StreamResume(c)
    \/ \E c \in Consumers : Disconnect(c)

SpecChannel == InitServing /\ [][NextChannel]_vars

\* the server keeps pulling a stream response whose peer is connected
SpecChannelFair ==
    /\ SpecChannel
    /\ \A c \in Consumers : WF_vars(StreamNext(c)) /\ WF_vars(StreamResume(c))

SpecCollect == Init /\ [][NextCollect]_vars

SpecDrain == Init /\ [][NextDrain]_vars

\* a served application answering POST /command requests, debug on or off
InitInvoke ==
    LET reg == Imported(InvokedFnIds, [commands |-> <<>>, models |-> <<>>]) IN
    /\ commands = reg.commands
    /\ models = reg.models
    /\ lastOp = Op("init", "", NoError)
    /\ clock = 0
    /\ files = [internal |-> <<>>, main |-> <<>>]
    /\ prevMain = <<>>
    /\ phase = "run"
    /\ stack = <<>>
    /\ root = NoHint
    /\ stored = <<>>
    /\ chan = <<>>
    /\ managed = {}
    /\ sent = <<>>
    /\ delivered = <<>>
    /\ task = <<>>
    /\ consumer = [c \in Consumers |-> IdleConsumer]
    /\ work = IdleWork
    /\ debug \in BOOLEAN
    /\ resp = IdleResp
    /\ InitLib

NextInvoke ==
    \/ \E name \in {"add_item", "list_points", "walk", "tick", "missing"},
          args \in ArgMaps, beh \in Behaviours :
           ExecuteCommand(name, args, beh)
    \/ Answered

SpecInvoke == InitInvoke /\ [][NextInvoke]_vars

\* every identifier over IdentChars, about to be converted
InitCasing ==
    /\ InitBase
    /\ instance = 1
    /\ casing \in {[IdleCasing EXCEPT !.ident = cs] : cs \in Identifiers}
    /\ extracted = NotExtracted
    /\ ws = NewWebSocket
    /\ wscall = [t \in Tasks |-> IdleCall]

NextCasing == Convert

SpecCasing == InitCasing /\ [][NextCasing]_vars

\* every events class, about to be read
InitEvents ==
    /\ InitBase
    /\ instance = 1
    /\ casing = IdleCasing
    /\ extracted \in {[NotExtracted EXCEPT !.cls = c] : c \in EventsClasses}
    /\ ws = NewWebSocket
    /\ wscall = [t \in Tasks |-> IdleCall]

NextEvents == ExtractEvents

SpecEvents == InitEvents /\ [][NextEvents]_vars

NextStubs ==
    \/ \E f \in StubFnIds : Command(f)
    \/ Reset
    \/ Generate
    \/ Tick

SpecStubs == Init /\ [][NextStubs]_vars

\* tasks of one connection calling the wrapper's methods, and the peer
NextWebSocket ==
    \/ \E t \in Tasks : CallAccept(t)
    \/ \E t \in Tasks : AcceptDone(t)
    \/ \E t \in Tasks : CallClose(t)
    \/ \E t \in Tasks : CloseDone(t)
    \/ \E t \in Tasks, event \in WsEvents, data \in WsData : CallSend(t, event, data)
    \/ \E t \in Tasks : CallListen(t)
    \/ \E t \in Tasks : ListenAccepted(t)
    \/ \E t \in Tasks, act \in HandlerActs : ListenReceive(t, act)
    \/ \E t \in Tasks, why \in {"loop_test", "disconnect", "error"} : ListenStops(t, why)
    \/ \E t \in Tasks : CallWaitClosed(t)
    \/ \E t \in Tasks : WaitReturn(t)

SpecWebSocket == Init /\ [][NextWebSocket]_vars

====
